---- MODULE Spec2Model ----
(***************************************************************************)
(* Memory Bottle recorder controller (bottle-recorder.ino, Nano ESP32      *)
(* listing with forced-duration sessions).                                 *)
(*                                                                         *)
(* One step of the model is one call of setup(), one iteration of loop()   *)
(* (input polling, the state handler with every blocking session it        *)
(* starts, and the trailing edge clear), or a power cycle.                 *)
(*                                                                         *)
(* Timers: the code keeps absolute millis() stamps and only ever uses the  *)
(* differences millis() - stamp.  The model keeps those differences (the   *)
(* age of each stamp), saturated just above the threshold they are         *)
(* compared with.                                                          *)
(***************************************************************************)
EXTENDS Integers, Sequences, FiniteSets

\* ------------------------------------------------------------------------
\* Program constants
\* ------------------------------------------------------------------------
NUM_LEDS == 7
RECORDING_DURATION == 15000
COLOR_RECORDING_DURATION == 8000
DEBOUNCE_TIME == 100
TILT_STABLE_TIME == 100
POT_READ_INTERVAL == 100
POT_THRESHOLD == 150
POT_MIDPOINT == 2048
SELECTING_TIMEOUT == 5000
MAX_FAILS == 3
WIFI_TIMEOUT == 30000
bufferSize == 4096
SAMPLE_RATE == 16000
LED_UPDATE_INTERVAL == 100
CATCH_UP_US == 2000
DEFAULT_GRAY == 128
\* bottle_instrument.ino; accelerations are in tenths of g
FSR_THRESHOLD == 300
SHAKE_THRESHOLD == 20
TURN_THRESHOLD == -6
SEQUENCE_SIZE == 50
DEBOUNCE_DELAY_MS == 50
SHAKE_DELAY_MS == 200
LOOP_DELAY_MS == 20
ADC_MID == 2048
PCM_GAIN == 16
BLINK_DONE_MS == 700
BLINK_FAIL_MS == 1500
BLINK_ERROR_MS == 1500
WIFI_RECONNECT_MS == 10000

HIGH == TRUE
LOW == FALSE

IDLE == "IDLE"
SELECTING == "SELECTING"
RECORDING == "RECORDING"
INCOMPLETE == "INCOMPLETE"
READY == "READY"
TRANSFERRING == "TRANSFERRING"
ERROR_STATE == "ERROR_STATE"
State == {IDLE, SELECTING, RECORDING, INCOMPLETE, READY, TRANSFERRING, ERROR_STATE}

AUDIO == "AUDIO"
COLOR == "COLOR"
SensorType == {AUDIO, COLOR}

\* ------------------------------------------------------------------------
\* Bounds of the environment
\* ------------------------------------------------------------------------
\* time between two loop() iterations
TickMs == 2501
Delays == {TickMs}
\* the same at the debounce time scale: back-to-back polls and short gaps
FineTickMs == 50
FineDelays == {0, FineTickMs}
\* dial positions, one on either side of the midpoint
PotLow == 1000
PotHigh == 3000
PotValues == {PotLow, PotHigh}
\* a dial position below the midpoint and the midpoint itself
DialValues == {PotLow, POT_MIDPOINT}
\* back-to-back polls and polls further apart than the dial sampling interval
DialDelays == {0, TickMs}
\* distinguishable microphone clips
NumClips == 2
Clips == 1..NumClips
\* raw 16-bit colour sensor readings (r, g, b)
SensorReadings == {<<0, 32768, 65535>>, <<65535, 256, 0>>}
\* outcomes of HTTPClient::sendRequest: a response status, or a negative
\* transport error (-1 connection refused, -11 no response within the timeout)
ReadTimeout == -11
HttpCodes == {200, 204, 500, -1, ReadTimeout}
\* what reading /color.dat may give: its record, no file that opens, or a
\* file with nothing available
ColorReads == {"record", "absent", "empty"}
RecordRead == {"record"}
\* one clip and one colour to capture
OneClip == {1}
OneReading == {<<0, 32768, 65535>>}
\* inside an audio session: time one pass of the sampling loop may take, and
\* the full blocks a session may flush
AudioTickMs == 5000
AudioDelays == {0, AudioTickMs}
MaxBlocks == 2
\* samples followed in an audio session of the interruptible listing
MaxTaken == 3
\* the instrument: time its setup() may take, the acceleration of the bottle
\* at rest (tenths of g), how far from full D and G are pressed, and the
\* tones pressed while the bottle is turned
SetupTimes == {0, DEBOUNCE_DELAY_MS + 1}
Upright == 10
NearFull == 1
MaxTones == 1
\* serial input, sensor values on both sides of the threshold, and the
\* accelerations of a bottle at rest or shaken and of one turned slowly
\* through the thresholds
Commands == {"", "r"}
NoCommand == {""}
FsrValues == {FSR_THRESHOLD, FSR_THRESHOLD + 1}
RestZs == {-Upright, Upright}
RestTotals == {Upright, SHAKE_THRESHOLD + 1}
TurnZs == {TURN_THRESHOLD - 1, TURN_THRESHOLD, -TURN_THRESHOLD, 1 - TURN_THRESHOLD}
TurnTotals == {SHAKE_THRESHOLD, SHAKE_THRESHOLD + 1}
AnyLength == SEQUENCE_SIZE + 1
BusyFrom == SEQUENCE_SIZE - NearFull
\* inside a capture loop at the microsecond scale: time one pass may take
\* (a bare pass, a pass inside or beyond the catch-up window of the sample
\* schedule, half a status interval, and a long stall of which three end
\* just short of an audio session), time analogRead may take, the passes
\* followed, and millis() when the session starts (an edge needs the
\* debounce time to have run out)
PassUs == 10
LateUs == 1000
SlowUs == 3000
HalfLedUs == 50000
StallUs == 4990000
PassDelays == {PassUs, LateUs, SlowUs, HalfLedUs, StallUs}
ReadDelays == {0, PassUs}
MaxPasses == 6
Uptimes == {DEBOUNCE_TIME + 1, DEBOUNCE_TIME + RECORDING_DURATION}
\* wall clock values (millis()) at which the ring is rendered, and the
\* progress arguments it is rendered with
Clocks == {0, 250, 500, 1000}
ProgressValues == {0, 3, NUM_LEDS}

\* a file that does not exist on the card, and the three files
NoFile == [exists |-> FALSE, header |-> "", data |-> << >>]
\* no capture session; a session records its channel, outcome, what it
\* captured and how long its capture loop ran
NoSession == [chan |-> "none", ok |-> FALSE, data |-> << >>, ms |-> 0]
\* no transfer attempt; an attempt records whether the network link came up,
\* which artifact files it opened, what it found in /color.dat, the colour
\* string it put in the X-Color-Data header, whether the request was sent
\* and its outcome
NoUpload == [link |-> "none", opened |-> {}, found |-> "none", color |-> << >>,
             sent |-> FALSE, code |-> 0]

VARIABLES
    phase,               \* the entry point that ran last: "setup" or "loop"
    currentState, selectedSensor, hasAudio, hasColor, wifiFailCount,
    sincePotRead,        \* millis() - lastPotRead
    sinceDebounce,       \* millis() - lastDebounceTime
    sinceTilt,           \* millis() - tiltStableTime
    sinceSelecting,      \* millis() - selectingStartTime
    lastButtonState, buttonState, previousButtonState,
    lastTiltState, tiltState, stableTilt,
    lastPotValue,        \* the function-local statics of the three handlers
    sd,                  \* SD card: /audio.wav, /color.dat, /recordings.txt
    signals,             \* status emissions of the last step, in order
    session,             \* capture session run by the last step
    attempt,             \* transfer attempt made by the last step
    upload,              \* what that attempt did on the network and the card
    edge,                \* capJustOpened()/capJustClosed() as the handler saw them
    \* observers (not program state)
    history,             \* channels of the last two sessions completed since the ledger was empty
    failStreak,          \* consecutive failed transfer attempts
    sinceCapChange,      \* time since buttonState last changed
    capGap,              \* time between the last two changes of buttonState
    heldFor,             \* time the raw cap line has kept its value at the polls
    heldAtChange,        \* heldFor when buttonState last changed
    dial,                \* raw dial value at the last loop() iteration, -1 before the first
    sampled,             \* raw dial value readSensorSelection() last read, -1 before the first
    potEvent,            \* a handler of the last step took its dial-moved branch
    tiltHeldFor,         \* time the raw tilt line has kept its value at the polls, -1 before the first
    tiltQuiet,           \* time since a poll last found the raw tilt line changed, or since power-on
    writes,              \* what the last step wrote (files, ledger) and currentState at each write
    wav,                 \* recordAudio(): its locals and /audio.wav as it is written
    strip,               \* the last two renderings of the ring by updateLEDs()
    cap,                 \* the capture loop of recordAudio() / captureColor(): clock and locals
    intr,                \* the audio session of the interruptible listing: its timers and clip
    pcm,                 \* the microphone sample recordAudio() last stored: reading, value, bytes
    inst                 \* the instrument sketch: its globals and what its last loop() sent

progVars == <<phase, currentState, selectedSensor, hasAudio, hasColor, wifiFailCount,
              sincePotRead, sinceDebounce, sinceTilt, sinceSelecting,
              lastButtonState, buttonState, previousButtonState,
              lastTiltState, tiltState, stableTilt, lastPotValue, sd,
              signals, session, attempt, upload, edge>>
obsVars == <<history, failStreak, sinceCapChange, capGap, heldFor, heldAtChange,
             dial, sampled, potEvent, tiltHeldFor, tiltQuiet, writes>>
wavVars == <<wav>>
ledVars == <<strip>>
capVars == <<cap>>
intrVars == <<intr>>
pcmVars == <<pcm>>
instVars == <<inst>>
vars == <<progVars, obsVars, wavVars, ledVars, capVars, intrVars, pcmVars, instVars>>

\* ------------------------------------------------------------------------
\* Helpers
\* ------------------------------------------------------------------------
Abs(x) == IF x < 0 THEN -x ELSE x

\* an age is only compared with `limit`: keep it exact up to limit, then limit+1
Sat(a, limit) == IF a > limit THEN limit + 1 ELSE a

\* time passes: every millis() difference grows by d
Elapse(c, d) ==
    [c EXCEPT !.sincePotRead = Sat(@ + d, POT_READ_INTERVAL),
              !.sinceDebounce = Sat(@ + d, DEBOUNCE_TIME),
              !.sinceTilt = Sat(@ + d, TILT_STABLE_TIME),
              !.sinceSelecting = Sat(@ + d, SELECTING_TIMEOUT),
              !.sinceCapChange = Sat(@ + d, DEBOUNCE_TIME),
              !.heldFor = Sat(@ + d, DEBOUNCE_TIME),
              !.tiltHeldFor = IF @ = -1 THEN -1 ELSE Sat(@ + d, TILT_STABLE_TIME),
              !.tiltQuiet = Sat(@ + d, TILT_STABLE_TIME)]

\* Arduino map(x, 0, 65535, 0, 255) stored in a uint8_t
map8(x) == ((x * 255) \div 65535) % 256

Emit(c, sig) == [c EXCEPT !.signals = Append(@, sig)]

\* a write to a file of the card or to the ledger flags, noted with the
\* value of currentState at that statement
Wrote(c, what) == [c EXCEPT !.writes = @ \cup {<<what, c.currentState>>}]

\* ------------------------------------------------------------------------
\* Debounced input layer
\* ------------------------------------------------------------------------
\* variant: the stable value follows the raw line without waiting for the window
readButtonState_noTimer(c, reading) ==
    LET t == IF reading # c.lastButtonState THEN 0 ELSE c.sinceDebounce
        commit == reading # c.buttonState
    IN [c EXCEPT !.sinceDebounce = t,
                 !.previousButtonState = IF commit THEN c.buttonState ELSE @,
                 !.buttonState = IF commit THEN reading ELSE @,
                 !.lastButtonState = reading]

readButtonState(c, reading) ==
    LET t == IF reading # c.lastButtonState THEN 0 ELSE c.sinceDebounce
        commit == t > DEBOUNCE_TIME /\ reading # c.buttonState
    IN [c EXCEPT !.sinceDebounce = t,
                 !.previousButtonState = IF commit THEN c.buttonState ELSE @,
                 !.buttonState = IF commit THEN reading ELSE @,
                 !.lastButtonState = reading]

\* variant: a changed reading restarts the timer but leaves the stable flag
readTiltState_noClear(c, reading) ==
    LET c1 == IF reading # c.lastTiltState
                 THEN [c EXCEPT !.sinceTilt = 0]
              ELSE IF ~c.stableTilt /\ c.sinceTilt > TILT_STABLE_TIME
                 THEN [c EXCEPT !.stableTilt = TRUE, !.tiltState = ~reading]
              ELSE c
    IN [c1 EXCEPT !.lastTiltState = reading]

readTiltState(c, reading) ==
    LET c1 == IF reading # c.lastTiltState
                 THEN [c EXCEPT !.sinceTilt = 0, !.stableTilt = FALSE]
              ELSE IF ~c.stableTilt /\ c.sinceTilt > TILT_STABLE_TIME
                 THEN [c EXCEPT !.stableTilt = TRUE, !.tiltState = ~reading]
              ELSE c
    IN [c1 EXCEPT !.lastTiltState = reading]

\* variant: the midpoint itself still selects the microphone
readSensorSelection_inclusive(c, potValue) ==
    [c EXCEPT !.selectedSensor = IF potValue <= POT_MIDPOINT THEN AUDIO ELSE COLOR,
              !.sampled = potValue]

readSensorSelection(c, potValue) ==
    [c EXCEPT !.selectedSensor = IF potValue < POT_MIDPOINT THEN AUDIO ELSE COLOR,
              !.sampled = potValue]

getRecordingCount(c) ==
    (IF c.hasAudio THEN 1 ELSE 0) + (IF c.hasColor THEN 1 ELSE 0)

isCapOpen(c) == c.buttonState = HIGH

capJustOpened(c) == c.previousButtonState = LOW /\ c.buttonState = HIGH

capJustClosed(c) == c.previousButtonState = HIGH /\ c.buttonState = LOW

isTilted(c) == c.stableTilt /\ c.tiltState = LOW

canPour(c) == c.hasAudio /\ c.hasColor

\* ------------------------------------------------------------------------
\* Status emission and error entry
\* ------------------------------------------------------------------------
updateLEDs(c, state) == Emit(c, state)

showIncompletePourWarning(c) == Emit(c, "WARNING")

\* strip.Color(r, g, b)
Color(r, g, b) == <<r, g, b>>

\* (sin(millis() / period) + 1) * 127 converted to int, at the clock values
\* of Clocks
pulse(now, period) ==
    CASE period = 200 -> (CASE now = 0 -> 127 [] now = 250 -> 247
                            [] now = 500 -> 203 [] now = 1000 -> 5)
      [] period = 300 -> (CASE now = 0 -> 127 [] now = 250 -> 221
                            [] now = 500 -> 253 [] now = 1000 -> 102)

\* what updateLEDs(state, progress) leaves on the ring when millis() is now
\* and the global selectedSensor is sel: strip.clear(), then the fill of
\* the state's case
stripFill(state, progress, now, sel) ==
    CASE state = IDLE -> Color(10, 10, 10)
      [] state = SELECTING ->
            IF sel = AUDIO THEN Color(0, 0, 255) ELSE Color(255, 0, 0)
      [] state = RECORDING ->
            LET brightness == 5 + (250 * progress * progress) \div (NUM_LEDS * NUM_LEDS)
            IN IF sel = AUDIO THEN Color(0, 0, brightness) ELSE Color(brightness, 0, 0)
      [] state = INCOMPLETE ->
            LET brightness == pulse(now, 200) IN Color(brightness, brightness, 0)
      [] state = READY -> Color(0, 255, 0)
      [] state = TRANSFERRING ->
            LET brightness == pulse(now, 300) IN Color(0, brightness, brightness)
      [] state = ERROR_STATE ->
            IF (now \div 500) % 2 = 0 THEN Color(255, 0, 0) ELSE Color(0, 0, 0)

\* ------------------------------------------------------------------------
\* The capture loops, pass by pass
\* ------------------------------------------------------------------------
\* a - b > k on unsigned long: below zero the difference wraps to
\* 2^32 - (b - a)
unsignedDiffAbove(a, b, k) ==
    IF a >= b THEN a - b > k ELSE ((b - a) + k) \div 65536 < 65536

sampleInterval == 1000000 \div SAMPLE_RATE

constrain(x, lo, hi) == IF x < lo THEN lo ELSE IF x > hi THEN hi ELSE x

captureDuration(chan) == IF chan = AUDIO THEN RECORDING_DURATION ELSE COLOR_RECORDING_DURATION

\* no capture loop entered.  us is micros(); millis() is us / 1000.
\* updates, samples and passes count from the start of the loop; emitted
\* and sampledNow tell what the last pass did; ledGap and sampleGap are
\* the time since the previous status update (ms) and the previous sample
\* (us) of the session, -1 when there was none; quiet counts the passes
\* without a status update since the previous update.
NoCapture ==
    [pos |-> "none", chan |-> AUDIO, us |-> 0, startTime |-> 0, lastLEDUpdate |-> 0,
     nextSample |-> 0, progress |-> 0, updates |-> 0, samples |-> 0, passes |-> 0,
     emitted |-> FALSE, sampledNow |-> FALSE, ledGap |-> -1, sampleGap |-> -1,
     shownAt |-> 0, sampleAt |-> 0, quiet |-> 0, between |-> 0]

\* the locals at the loop head
captureStarted(chan, uptime) ==
    [NoCapture EXCEPT !.pos = "loop", !.chan = chan, !.us = uptime * 1000,
                      !.startTime = uptime, !.nextSample = uptime * 1000]

millisOf(k) == k.us \div 1000

captureOver(k) == millisOf(k) - k.startTime >= captureDuration(k.chan)

\* variant: the status update is made on every pass
ledDue_always(k) == TRUE

ledDue(k) == millisOf(k) - k.lastLEDUpdate >= LED_UPDATE_INTERVAL

\* the status part of a pass
showProgress(k) ==
    IF ledDue(k)
       THEN LET elapsed == millisOf(k) - k.startTime
            IN [k EXCEPT !.progress = constrain((elapsed * NUM_LEDS) \div captureDuration(k.chan),
                                                0, NUM_LEDS),
                         !.ledGap = IF k.updates = 0 THEN -1 ELSE millisOf(k) - k.shownAt,
                         !.shownAt = millisOf(k),
                         !.lastLEDUpdate = millisOf(k),
                         !.updates = @ + 1,
                         !.emitted = TRUE,
                         !.between = k.quiet,
                         !.quiet = 0]
       ELSE [k EXCEPT !.emitted = FALSE, !.quiet = @ + 1]

\* the sampling part of a pass of recordAudio(); rd is the time between
\* the test of micros() and the reads of micros() after the sample
takeSample(k, rd) ==
    IF k.us >= k.nextSample
       THEN LET next == k.nextSample + sampleInterval
                after == k.us + rd
            IN [k EXCEPT !.nextSample = IF unsignedDiffAbove(after, next, CATCH_UP_US)
                                           THEN after ELSE next,
                         !.samples = @ + 1,
                         !.sampleGap = IF k.samples = 0 THEN -1 ELSE k.us - k.sampleAt,
                         !.sampleAt = k.us,
                         !.sampledNow = TRUE,
                         !.us = after]
       ELSE [k EXCEPT !.sampledNow = FALSE]

\* one pass of the while loop, taking dt after the sampling part
capturePass(k, rd, dt) ==
    LET shown == showProgress(k)
        done == IF k.chan = AUDIO THEN takeSample(shown, rd) ELSE shown
    IN [done EXCEPT !.us = @ + dt, !.passes = @ + 1]

\* after the loop: the completion blink clears the ring at once
captureEnd(k) ==
    [k EXCEPT !.pos = "blink",
              !.ledGap = IF k.updates = 0 THEN -1 ELSE millisOf(k) - k.shownAt,
              !.emitted = TRUE, !.sampledNow = FALSE]

\* no rendering yet; a rendering records the arguments, the clock, the
\* selected channel and the resulting fill
NoRender == [state |-> "none", progress |-> 0, now |-> 0, sel |-> AUDIO, fill |-> Color(0, 0, 0)]

enterErrorState(c) ==
    Elapse(Emit([c EXCEPT !.currentState = ERROR_STATE], "ERROR_BLINK"), BLINK_ERROR_MS)

\* ------------------------------------------------------------------------
\* Session ledger on the card
\* ------------------------------------------------------------------------
\* the record "audio:<0|1>,color:<0|1>" as the pieces the code prints
saveRecordingStatus(c) ==
    [Wrote(c, "status") EXCEPT !.sd.status =
        [exists |-> TRUE, header |-> "",
         data |-> <<"audio:", IF c.hasAudio THEN "1" ELSE "0",
                    ",color:", IF c.hasColor THEN "1" ELSE "0">>]]

\* position of a key in the record, 0 when absent (indexOf)
indexOf(line, key) ==
    IF \E i \in 1..Len(line) : line[i] = key
       THEN CHOOSE i \in 1..Len(line) : line[i] = key /\ \A j \in 1..(i - 1) : line[j] # key
       ELSE 0

\* the character after the key (charAt(idx + 6))
charAfter(line, idx) == IF idx < Len(line) THEN line[idx + 1] ELSE ""

\* loadRecordingStatus: the flags it would assign, given the current ones
loadRecordingStatus(status, curAudio, curColor) ==
    IF ~status.exists
       THEN [hasAudio |-> FALSE, hasColor |-> FALSE]
       ELSE LET line == status.data
                a == indexOf(line, "audio:")
                k == indexOf(line, ",color:")
            IN [hasAudio |-> IF a > 0 THEN charAfter(line, a) = "1" ELSE curAudio,
                hasColor |-> IF k > 0 THEN charAfter(line, k) = "1" ELSE curColor]

clearMemory(c) ==
    LET noted == Wrote(Wrote(Wrote(c, "audio"), "color"), "ledger")
    IN saveRecordingStatus([noted EXCEPT !.sd.audio = NoFile, !.sd.color = NoFile,
                                         !.hasAudio = FALSE, !.hasColor = FALSE])

\* ------------------------------------------------------------------------
\* Capture sessions
\* ------------------------------------------------------------------------
\* /audio.wav after a finished session: header patched with the final size,
\* followed by what was sampled
recordAudio(c, openOk, clip) ==
    LET removed == [Wrote(c, "audio") EXCEPT !.sd.audio = NoFile]
    IN IF ~openOk
          THEN [enterErrorState(removed) EXCEPT
                   !.session = [chan |-> AUDIO, ok |-> FALSE, data |-> << >>, ms |-> 0]]
          ELSE LET rec == Emit(Emit(Wrote(removed, "ledger"), "PROGRESS"), "DONE_BLINK")
               IN [Elapse(rec, RECORDING_DURATION + BLINK_DONE_MS) EXCEPT
                      !.sd.audio = [exists |-> TRUE, header |-> "final", data |-> <<clip>>],
                      !.hasAudio = TRUE,
                      !.session = [chan |-> AUDIO, ok |-> TRUE, data |-> <<clip>>,
                                    ms |-> RECORDING_DURATION]]

\* SD.open(path, FILE_WRITE) on the ESP32 core truncates: the new content
\* starts empty and the record is printed into it
\* variant: the record is appended to the existing file
captureColor_append(c, openOk, reading) ==
    LET line == <<map8(reading[1]), map8(reading[2]), map8(reading[3])>>
        rec == Elapse(Emit(Emit(c, "PROGRESS"), "DONE_BLINK"),
                      COLOR_RECORDING_DURATION + BLINK_DONE_MS)
    IN IF ~openOk
          THEN [enterErrorState(rec) EXCEPT
                   !.session = [chan |-> COLOR, ok |-> FALSE, data |-> <<line>>,
                                        ms |-> COLOR_RECORDING_DURATION]]
          ELSE [rec EXCEPT !.sd.color = [exists |-> TRUE, header |-> "",
                                         data |-> Append(c.sd.color.data, line)],
                           !.hasColor = TRUE,
                           !.session = [chan |-> COLOR, ok |-> TRUE, data |-> <<line>>,
                                        ms |-> COLOR_RECORDING_DURATION]]

\* variant: the sensor is read and recorded at the start and at the end of the dwell
captureColor_twice(c, openOk, reading) ==
    LET line == <<map8(reading[1]), map8(reading[2]), map8(reading[3])>>
        rec == Elapse(Emit(Emit(c, "PROGRESS"), "DONE_BLINK"),
                      COLOR_RECORDING_DURATION + BLINK_DONE_MS)
    IN IF ~openOk
          THEN [enterErrorState(rec) EXCEPT
                   !.session = [chan |-> COLOR, ok |-> FALSE, data |-> <<line, line>>,
                                        ms |-> COLOR_RECORDING_DURATION]]
          ELSE [rec EXCEPT !.sd.color = [exists |-> TRUE, header |-> "",
                                         data |-> <<line, line>>],
                           !.hasColor = TRUE,
                           !.session = [chan |-> COLOR, ok |-> TRUE, data |-> <<line, line>>,
                                        ms |-> COLOR_RECORDING_DURATION]]

\* variant: the reading is taken at once, without the dwell
captureColor_noDwell(c, openOk, reading) ==
    LET line == <<map8(reading[1]), map8(reading[2]), map8(reading[3])>>
        rec == Elapse(Emit(c, "DONE_BLINK"), BLINK_DONE_MS)
    IN IF ~openOk
          THEN [enterErrorState(rec) EXCEPT
                   !.session = [chan |-> COLOR, ok |-> FALSE, data |-> <<line>>, ms |-> 0]]
          ELSE [rec EXCEPT !.sd.color = [exists |-> TRUE, header |-> "", data |-> <<line>>],
                           !.hasColor = TRUE,
                           !.session = [chan |-> COLOR, ok |-> TRUE, data |-> <<line>>,
                                        ms |-> 0]]

captureColor(c, openOk, reading) ==
    LET line == <<map8(reading[1]), map8(reading[2]), map8(reading[3])>>
        rec == Elapse(Emit(Emit(c, "PROGRESS"), "DONE_BLINK"),
                      COLOR_RECORDING_DURATION + BLINK_DONE_MS)
    IN IF ~openOk
          THEN [enterErrorState(rec) EXCEPT
                   !.session = [chan |-> COLOR, ok |-> FALSE, data |-> <<line>>,
                                        ms |-> COLOR_RECORDING_DURATION]]
          ELSE [Wrote(Wrote(rec, "color"), "ledger") EXCEPT !.sd.color = [exists |-> TRUE, header |-> "", data |-> <<line>>],
                           !.hasColor = TRUE,
                           !.session = [chan |-> COLOR, ok |-> TRUE, data |-> <<line>>,
                                        ms |-> COLOR_RECORDING_DURATION]]

\* ------------------------------------------------------------------------
\* recordAudio() pass by pass
\* ------------------------------------------------------------------------
\* what analogRead(MIC_PIN) returns: the 12 bits of the converter
Readings == 0..(2 * ADC_MID - 1)

\* conversion of an int to int16_t: the low 16 bits, two's complement
toInt16(x) == ((x + 32768) % 65536) - 32768

\* conversion of an int to uint8_t on assignment to a buffer cell
toUint8(x) == x % 256

\* int16_t sample16 = (sample - 2048) * 16
sample16(sample) == toInt16((sample - ADC_MID) * PCM_GAIN)

\* variant: the high byte is stored first
storeSample_highFirst(v) == <<toUint8(v \div 256), toUint8(v % 256)>>

\* buffer[bufferIndex] = sample16 & 0xFF; buffer[bufferIndex + 1] = sample16 >> 8
storeSample(v) == <<toUint8(v % 256), toUint8(v \div 256)>>

\* the signed 16-bit value a reader of the WAV data assembles from two
\* successive bytes, low byte first
readLE16(b) == toInt16(b[1] + 256 * b[2])

\* no sample stored yet
NoSample == [taken |-> FALSE, reading |-> 0, value |-> 0, bytes |-> <<0, 0>>]

\* the sampling branch of one pass, for one reading of the microphone
micSample(reading) ==
    [taken |-> TRUE, reading |-> reading, value |-> sample16(reading),
     bytes |-> storeSample(sample16(reading))]

\* file.write((byte*)&x, 4): the four bytes of a 32-bit unsigned long, low
\* byte first (x stays below 2^31 here), and the value a reader assembles
\* from them
writeLE32(x) == [i \in 1..4 |-> (x \div (256 ^ (i - 1))) % 256]

readLE32(b) == b[1] + 256 * b[2] + 65536 * b[3] + 16777216 * b[4]

\* the two length fields writeWAVHeader derives from its argument
writeWAVHeader(dataSize) ==
    [chunkSize |-> writeLE32(dataSize + 36), dataSize |-> writeLE32(dataSize)]

\* recordAudio is not running
NoRecording ==
    [pos |-> "idle", elapsed |-> 0, bufferIndex |-> 0, totalBytesWritten |-> 0,
     samples |-> 0, appended |-> 0, header |-> writeWAVHeader(0)]

\* the file is open with the placeholder header, the locals are initialized
audioOpened ==
    [pos |-> "sampling", elapsed |-> 0, bufferIndex |-> 0, totalBytesWritten |-> 0,
     samples |-> 0, appended |-> 0, header |-> writeWAVHeader(0)]

\* variant: the loop gives up after two thirds of the duration
recordingOver_early(r) == 3 * r.elapsed >= 2 * RECORDING_DURATION

\* the test of the while loop, negated
recordingOver(r) == r.elapsed >= RECORDING_DURATION

\* variant: the block is flushed only once the index has passed the end
samplePass_lateFlush(r, due, dt) ==
    LET r1 == IF due
                 THEN [r EXCEPT !.bufferIndex = @ + 2, !.samples = @ + 1]
                 ELSE r
        r2 == IF due /\ r1.bufferIndex > bufferSize
                 THEN [r1 EXCEPT !.appended = @ + bufferSize,
                                 !.totalBytesWritten = @ + bufferSize,
                                 !.bufferIndex = 0]
                 ELSE r1
    IN [r2 EXCEPT !.elapsed = @ + dt]

\* one pass of the while loop taking dt; `due` is micros() >= nextSample
samplePass(r, due, dt) ==
    LET r1 == IF due
                 THEN [r EXCEPT !.bufferIndex = @ + 2, !.samples = @ + 1]
                 ELSE r
        r2 == IF due /\ r1.bufferIndex >= bufferSize
                 THEN [r1 EXCEPT !.appended = @ + bufferSize,
                                 !.totalBytesWritten = @ + bufferSize,
                                 !.bufferIndex = 0]
                 ELSE r1
    IN [r2 EXCEPT !.elapsed = @ + dt]

\* variant: the header is patched before the last partial block is counted
finishAudio_early(r) ==
    LET r1 == IF r.bufferIndex > 0
                 THEN [r EXCEPT !.appended = @ + r.bufferIndex,
                                !.totalBytesWritten = @ + r.bufferIndex]
                 ELSE r
    IN [r1 EXCEPT !.header = writeWAVHeader(r.totalBytesWritten), !.pos = "done"]

\* after the loop: the remaining block, then seek(0) and the final header
finishAudio(r) ==
    LET r1 == IF r.bufferIndex > 0
                 THEN [r EXCEPT !.appended = @ + r.bufferIndex,
                                !.totalBytesWritten = @ + r.bufferIndex]
                 ELSE r
    IN [r1 EXCEPT !.header = writeWAVHeader(r1.totalBytesWritten), !.pos = "done"]

\* variant: any non-empty ledger counts as incomplete
nextStateFor_neverReady(count) ==
    IF count >= 1 THEN INCOMPLETE ELSE IDLE

nextStateFor(count) ==
    IF count = 1 THEN INCOMPLETE ELSE IF count = 2 THEN READY ELSE IDLE

\* variant: the next state is derived from the count before the capture
startRecording_stale(c, env) ==
    LET c1 == [c EXCEPT !.currentState = RECORDING]
        c2 == IF c1.selectedSensor = AUDIO
                 THEN recordAudio(c1, env.openOk, env.clip)
                 ELSE captureColor(c1, env.openOk, env.reading)
    IN saveRecordingStatus([c2 EXCEPT !.currentState = nextStateFor(getRecordingCount(c1))])

\* variant: the next state is left to a later iteration
startRecording_stay(c, env) ==
    LET c1 == [c EXCEPT !.currentState = RECORDING]
        c2 == IF c1.selectedSensor = AUDIO
                 THEN recordAudio(c1, env.openOk, env.clip)
                 ELSE captureColor(c1, env.openOk, env.reading)
    IN saveRecordingStatus(c2)

startRecording(c, env) ==
    LET c1 == [c EXCEPT !.currentState = RECORDING]
        c2 == IF c1.selectedSensor = AUDIO
                 THEN recordAudio(c1, env.openOk, env.clip)
                 ELSE captureColor(c1, env.openOk, env.reading)
    IN saveRecordingStatus([c2 EXCEPT !.currentState = nextStateFor(getRecordingCount(c2))])

\* ------------------------------------------------------------------------
\* The interruptible listing (lines 1-930): audio session
\* ------------------------------------------------------------------------
\* pos: "loop" between two iterations of loop(), "sampling" inside the
\* while loop of recordAudio(), "closing" once that loop was left by its
\* break.  inRecording is millis() - recordingStartTime, sampledMs is
\* millis() - startTime of recordAudio(), nextSample is counted in
\* microseconds from that startTime, samples is what was written after the
\* header; byEdge tells that the cap-closed edge ended the session and
\* done that the session has ended.
NoTake ==
    [pos |-> "loop", inRecording |-> 0, sampledMs |-> 0, nextSample |-> 0,
     samples |-> 0, byEdge |-> FALSE, done |-> FALSE]

\* stopRecording() was entered from handleRecordingState(): recordAudio()
\* has opened the file, written the header and read its clocks
sampleLoopEntered(elapsed, closed) ==
    [NoTake EXCEPT !.pos = "sampling", !.inRecording = elapsed, !.byEdge = closed]

\* handleRecordingState(): the session is stopped by the cap-closed edge
\* or once RECORDING_DURATION has elapsed
recordingStops(c, elapsed) == capJustClosed(c) \/ elapsed >= RECORDING_DURATION

\* one pass of the while loop that does not break, taking dt
samplingPass(r, dt) ==
    LET due == r.sampledMs * 1000 >= r.nextSample
    IN [r EXCEPT !.samples = IF due THEN @ + 1 ELSE @,
                 !.nextSample = IF due THEN @ + sampleInterval ELSE @,
                 !.sampledMs = @ + dt,
                 !.inRecording = @ + dt]

\* recordAudio() after its loop and the rest of stopRecording()
stopRecording(c) ==
    LET c1 == [Wrote(Wrote(c, "audio"), "ledger") EXCEPT
                  !.sd.audio = [exists |-> TRUE, header |-> "nominal", data |-> << >>],
                  !.hasAudio = TRUE]
    IN saveRecordingStatus([c1 EXCEPT !.currentState = nextStateFor(getRecordingCount(c1))])

\* ------------------------------------------------------------------------
\* Transfer session
\* ------------------------------------------------------------------------
\* variant: the ledger is given up one failure late
handleTransferFailure_late(c) ==
    LET c1 == Elapse(Emit([c EXCEPT !.wifiFailCount = @ + 1, !.attempt = "failure"],
                          "FAIL_BLINK"), BLINK_FAIL_MS)
    IN IF c1.wifiFailCount > MAX_FAILS
          THEN [clearMemory([c1 EXCEPT !.wifiFailCount = 0]) EXCEPT !.currentState = IDLE]
          ELSE [c1 EXCEPT !.currentState = READY]

\* variant: the counter is reset at the limit but the artifacts are kept
handleTransferFailure_retry(c) ==
    LET c1 == Elapse(Emit([c EXCEPT !.wifiFailCount = @ + 1, !.attempt = "failure"],
                          "FAIL_BLINK"), BLINK_FAIL_MS)
    IN IF c1.wifiFailCount >= MAX_FAILS
          THEN [c1 EXCEPT !.wifiFailCount = 0, !.currentState = READY]
          ELSE [c1 EXCEPT !.currentState = READY]

\* variant: the state is left before the ledger and the files are given up
handleTransferFailure_idleFirst(c) ==
    LET c1 == Elapse(Emit([c EXCEPT !.wifiFailCount = @ + 1, !.attempt = "failure"],
                          "FAIL_BLINK"), BLINK_FAIL_MS)
    IN IF c1.wifiFailCount >= MAX_FAILS
          THEN clearMemory([c1 EXCEPT !.wifiFailCount = 0, !.currentState = IDLE])
          ELSE [c1 EXCEPT !.currentState = READY]

handleTransferFailure(c) ==
    LET c1 == Elapse(Emit([c EXCEPT !.wifiFailCount = @ + 1, !.attempt = "failure"],
                          "FAIL_BLINK"), BLINK_FAIL_MS)
    IN IF c1.wifiFailCount >= MAX_FAILS
          THEN [clearMemory([c1 EXCEPT !.wifiFailCount = 0]) EXCEPT !.currentState = IDLE]
          ELSE [c1 EXCEPT !.currentState = READY]

\* String colorString = "128,128,128"
DefaultColor == <<DEFAULT_GRAY, DEFAULT_GRAY, DEFAULT_GRAY>>

\* what SD.open("/color.dat", FILE_READ) and available() find
colorFound(c, env) == IF c.sd.color.exists THEN env.colorRead ELSE "absent"

\* variant: without a record the header is left empty
colorString_blank(c, env) ==
    IF colorFound(c, env) = "record" THEN c.sd.color.data ELSE << >>

\* the lines of the colour string sent: the trimmed content of the file, or
\* the default when the file did not open, had nothing available or was blank
colorString(c, env) ==
    IF colorFound(c, env) = "record" /\ c.sd.color.data # << >>
       THEN c.sd.color.data
       ELSE <<DefaultColor>>

\* the files transferData opens before the request: /color.dat when it
\* opens, then /audio.wav
openedFor(c, env) ==
    (IF colorFound(c, env) # "absent" THEN {"color"} ELSE {})
        \cup (IF c.sd.audio.exists THEN {"audio"} ELSE {})

\* the attempt once the link is up and the files have been tried
linkUp(c, env) ==
    [NoUpload EXCEPT !.link = "up", !.opened = openedFor(c, env),
                     !.found = colorFound(c, env), !.color = colorString(c, env)]

\* sendRequest has returned httpCode after the time it took
afterRequest(c, env) ==
    LET c1 == [c EXCEPT !.upload = [linkUp(c, env) EXCEPT !.sent = TRUE, !.code = env.httpCode]]
    IN IF env.httpCode = ReadTimeout THEN Elapse(c1, WIFI_TIMEOUT) ELSE c1

\* variant: a failed reconnect is reported but the function does not return
transferData_noReturn(c, env) ==
    LET c0 == IF ~env.wifiOk
                 THEN handleTransferFailure(
                         Elapse([c EXCEPT !.upload = [NoUpload EXCEPT !.link = "down"]],
                                WIFI_RECONNECT_MS))
                 ELSE c
    IN IF ~c0.sd.audio.exists
          THEN handleTransferFailure(
                  [c0 EXCEPT !.upload = [linkUp(c0, env) EXCEPT !.link = c0.upload.link]])
       ELSE IF env.httpCode = 200
          THEN [clearMemory([afterRequest(c0, env) EXCEPT !.wifiFailCount = 0,
                                                          !.attempt = "success"])
                   EXCEPT !.currentState = IDLE]
       ELSE handleTransferFailure(afterRequest(c0, env))

\* variant: a successful upload leaves the failure counter as it was
transferData_keepCount(c, env) ==
    IF ~env.wifiOk
       THEN handleTransferFailure(
               Elapse([c EXCEPT !.upload = [NoUpload EXCEPT !.link = "down"]],
                      WIFI_RECONNECT_MS))
    ELSE IF ~c.sd.audio.exists
       THEN handleTransferFailure(
               [c EXCEPT !.upload = linkUp(c, env)])
    ELSE IF env.httpCode = 200
       THEN [clearMemory([afterRequest(c, env) EXCEPT !.attempt = "success"])
                EXCEPT !.currentState = IDLE]
    ELSE handleTransferFailure(afterRequest(c, env))

transferData(c, env) ==
    IF ~env.wifiOk
       THEN handleTransferFailure(
               Elapse([c EXCEPT !.upload = [NoUpload EXCEPT !.link = "down"]],
                      WIFI_RECONNECT_MS))
    ELSE IF ~c.sd.audio.exists
       THEN handleTransferFailure(
               [c EXCEPT !.upload = linkUp(c, env)])
    ELSE IF env.httpCode = 200
       THEN [clearMemory([afterRequest(c, env) EXCEPT !.wifiFailCount = 0,
                                                      !.attempt = "success"])
                EXCEPT !.currentState = IDLE]
    ELSE handleTransferFailure(afterRequest(c, env))

\* ------------------------------------------------------------------------
\* State handlers
\* ------------------------------------------------------------------------
\* the dial test shared by the handlers: `which` names the handler's static
potMoved(c, which, potValue) ==
    LET last == IF c.lastPotValue[which] = -1 THEN potValue ELSE c.lastPotValue[which]
    IN Abs(potValue - last) > POT_THRESHOLD

trackPot(c, which, potValue) ==
    IF potMoved(c, which, potValue)
       THEN [c EXCEPT !.lastPotValue[which] = potValue, !.potEvent = TRUE]
    ELSE IF c.lastPotValue[which] = -1
       THEN [c EXCEPT !.lastPotValue[which] = potValue]
    ELSE c

enterSelecting(c, potValue) ==
    readSensorSelection([c EXCEPT !.currentState = SELECTING, !.sinceSelecting = 0],
                        potValue)

handleIdleState(c, potValue, env) ==
    LET c1 == updateLEDs(c, IDLE)
        c2 == IF potMoved(c1, "idle", potValue)
                 THEN enterSelecting(trackPot(c1, "idle", potValue), potValue)
                 ELSE trackPot(c1, "idle", potValue)
    IN IF capJustOpened(c2) THEN startRecording(c2, env) ELSE c2

handleSelectingState(c, potValue, env) ==
    LET c1 == updateLEDs(c, SELECTING)
    IN IF capJustOpened(c1) THEN startRecording(c1, env)
       ELSE IF c1.sinceSelecting > SELECTING_TIMEOUT THEN [c1 EXCEPT !.currentState = IDLE]
       ELSE IF potMoved(c1, "selecting", potValue)
          THEN readSensorSelection(
                  [trackPot(c1, "selecting", potValue) EXCEPT !.sinceSelecting = 0], potValue)
       ELSE trackPot(c1, "selecting", potValue)

handleIncompleteState(c, potValue, env) ==
    LET c1 == updateLEDs(c, INCOMPLETE)
        c2 == IF potMoved(c1, "incomplete", potValue)
                 THEN enterSelecting(trackPot(c1, "incomplete", potValue), potValue)
                 ELSE trackPot(c1, "incomplete", potValue)
    IN IF capJustOpened(c2) THEN startRecording(c2, env) ELSE c2

\* variant: the open cap alone starts the transfer
handleReadyState_capOnly(c, env) ==
    LET c1 == updateLEDs(c, READY)
    IN IF isCapOpen(c1)
          THEN transferData([c1 EXCEPT !.currentState = TRANSFERRING], env)
          ELSE c1

\* variant: a request that gets no response is waited for in Transferring
handleReadyState_stuck(c, env) ==
    LET c1 == updateLEDs(c, READY)
    IN IF isCapOpen(c1) /\ isTilted(c1)
          THEN IF env.wifiOk /\ env.httpCode = ReadTimeout
                  THEN afterRequest([c1 EXCEPT !.currentState = TRANSFERRING], env)
                  ELSE transferData([c1 EXCEPT !.currentState = TRANSFERRING], env)
          ELSE c1

handleReadyState(c, env) ==
    LET c1 == updateLEDs(c, READY)
    IN IF isCapOpen(c1) /\ isTilted(c1)
          THEN transferData([c1 EXCEPT !.currentState = TRANSFERRING], env)
          ELSE c1

handleRecordingState(c) == updateLEDs(c, RECORDING)

handleTransferringState(c) == updateLEDs(c, TRANSFERRING)

\* ------------------------------------------------------------------------
\* loop()
\* ------------------------------------------------------------------------
\* the input polling at the head of loop(), dt after the previous iteration
pollInputs(c, dt, capRaw, tiltRaw, potValue) ==
    LET c0 == Elapse([c EXCEPT !.signals = << >>, !.session = NoSession,
                               !.attempt = "none", !.upload = NoUpload,
                               !.dial = potValue, !.potEvent = FALSE,
                               !.writes = {}], dt)
        c1 == readButtonState(c0, capRaw)
        c2 == readTiltState(c1, tiltRaw)
        c3 == IF c2.sincePotRead > POT_READ_INTERVAL
                 THEN [readSensorSelection(c2, potValue) EXCEPT !.sincePotRead = 0]
                 ELSE c2
        changed == c3.buttonState # c.buttonState
        held == IF capRaw # c.lastButtonState THEN 0 ELSE c0.heldFor
        tiltHeld == IF c.tiltHeldFor = -1 \/ tiltRaw # c.lastTiltState
                       THEN 0 ELSE c0.tiltHeldFor
    IN [c3 EXCEPT !.edge = [opened |-> capJustOpened(c3), closed |-> capJustClosed(c3)],
                  !.heldFor = held,
                  !.tiltHeldFor = tiltHeld,
                  !.tiltQuiet = IF tiltRaw # c.lastTiltState THEN 0 ELSE c0.tiltQuiet,
                  !.heldAtChange = IF changed THEN held ELSE @,
                  !.capGap = IF changed THEN c0.sinceCapChange ELSE @,
                  !.sinceCapChange = IF changed THEN 0 ELSE @]

\* variant: the error case is handled like idle
dispatch_errorAsIdle(c, potValue, env) ==
    CASE c.currentState = IDLE -> handleIdleState(c, potValue, env)
      [] c.currentState = SELECTING -> handleSelectingState(c, potValue, env)
      [] c.currentState = RECORDING -> handleRecordingState(c)
      [] c.currentState = INCOMPLETE -> handleIncompleteState(c, potValue, env)
      [] c.currentState = READY -> handleReadyState(c, env)
      [] c.currentState = TRANSFERRING -> handleTransferringState(c)
      [] c.currentState = ERROR_STATE -> handleIdleState(c, potValue, env)

dispatch(c, potValue, env) ==
    CASE c.currentState = IDLE -> handleIdleState(c, potValue, env)
      [] c.currentState = SELECTING -> handleSelectingState(c, potValue, env)
      [] c.currentState = RECORDING -> handleRecordingState(c)
      [] c.currentState = INCOMPLETE -> handleIncompleteState(c, potValue, env)
      [] c.currentState = READY -> handleReadyState(c, env)
      [] c.currentState = TRANSFERRING -> handleTransferringState(c)
      [] c.currentState = ERROR_STATE -> c

\* variant: the edge is not cleared at the end of loop()
clearEdge_missing(c) == c

clearEdge(c) == [c EXCEPT !.previousButtonState = c.buttonState]

\* the rest of loop() once the inputs are polled: the switch and the edge clear
stateMachine(p, potValue, env) == clearEdge(dispatch(p, potValue, env))

loop(c, dt, capRaw, tiltRaw, potValue, env) ==
    stateMachine(pollInputs(c, dt, capRaw, tiltRaw, potValue), potValue, env)

\* ------------------------------------------------------------------------
\* setup() and the state after power-on
\* ------------------------------------------------------------------------
\* the initializers of the globals and of the handlers' statics
PowerOn(card) ==
    [currentState |-> IDLE, selectedSensor |-> AUDIO,
     hasAudio |-> FALSE, hasColor |-> FALSE, wifiFailCount |-> 0,
     sincePotRead |-> 0, sinceDebounce |-> 0, sinceTilt |-> 0, sinceSelecting |-> 0,
     lastButtonState |-> HIGH, buttonState |-> HIGH, previousButtonState |-> HIGH,
     lastTiltState |-> HIGH, tiltState |-> HIGH, stableTilt |-> FALSE,
     lastPotValue |-> [idle |-> -1, selecting |-> -1, incomplete |-> -1],
     sd |-> card,
     signals |-> << >>, session |-> NoSession, attempt |-> "none", upload |-> NoUpload,
     edge |-> [opened |-> FALSE, closed |-> FALSE],
     sinceCapChange |-> DEBOUNCE_TIME + 1, capGap |-> DEBOUNCE_TIME + 1, heldFor |-> 0,
     heldAtChange |-> DEBOUNCE_TIME + 1,
     dial |-> -1, sampled |-> -1, potEvent |-> FALSE, tiltHeldFor |-> -1, tiltQuiet |-> 0,
     writes |-> {}]

BlankCard == [audio |-> NoFile, color |-> NoFile, status |-> NoFile]

setup(c, sdOk, sensorOk) ==
    IF ~sdOk \/ ~sensorOk
       THEN enterErrorState(c)
       ELSE LET noted == Wrote(Wrote(Wrote(Wrote(c, "audio"), "color"), "status"), "ledger")
            IN updateLEDs([noted EXCEPT !.sd = BlankCard, !.hasAudio = FALSE,
                                        !.hasColor = FALSE, !.currentState = IDLE], IDLE)

\* ------------------------------------------------------------------------
\* The state machine
\* ------------------------------------------------------------------------
Ctx ==
    [currentState |-> currentState, selectedSensor |-> selectedSensor,
     hasAudio |-> hasAudio, hasColor |-> hasColor, wifiFailCount |-> wifiFailCount,
     sincePotRead |-> sincePotRead, sinceDebounce |-> sinceDebounce,
     sinceTilt |-> sinceTilt, sinceSelecting |-> sinceSelecting,
     lastButtonState |-> lastButtonState, buttonState |-> buttonState,
     previousButtonState |-> previousButtonState,
     lastTiltState |-> lastTiltState, tiltState |-> tiltState, stableTilt |-> stableTilt,
     lastPotValue |-> lastPotValue, sd |-> sd,
     signals |-> signals, session |-> session, attempt |-> attempt, upload |-> upload,
     edge |-> edge,
     sinceCapChange |-> sinceCapChange, capGap |-> capGap, heldFor |-> heldFor,
     heldAtChange |-> heldAtChange,
     dial |-> dial, sampled |-> sampled, potEvent |-> potEvent,
     tiltHeldFor |-> tiltHeldFor, tiltQuiet |-> tiltQuiet, writes |-> writes]

Commit(n) ==
    /\ currentState' = n.currentState
    /\ selectedSensor' = n.selectedSensor
    /\ hasAudio' = n.hasAudio
    /\ hasColor' = n.hasColor
    /\ wifiFailCount' = n.wifiFailCount
    /\ sincePotRead' = n.sincePotRead
    /\ sinceDebounce' = n.sinceDebounce
    /\ sinceTilt' = n.sinceTilt
    /\ sinceSelecting' = n.sinceSelecting
    /\ lastButtonState' = n.lastButtonState
    /\ buttonState' = n.buttonState
    /\ previousButtonState' = n.previousButtonState
    /\ lastTiltState' = n.lastTiltState
    /\ tiltState' = n.tiltState
    /\ stableTilt' = n.stableTilt
    /\ lastPotValue' = n.lastPotValue
    /\ sd' = n.sd
    /\ signals' = n.signals
    /\ session' = n.session
    /\ attempt' = n.attempt
    /\ upload' = n.upload
    /\ edge' = n.edge
    /\ sinceCapChange' = n.sinceCapChange
    /\ capGap' = n.capGap
    /\ heldFor' = n.heldFor
    /\ heldAtChange' = n.heldAtChange
    /\ dial' = n.dial
    /\ sampled' = n.sampled
    /\ potEvent' = n.potEvent
    /\ writes' = n.writes
    /\ tiltHeldFor' = n.tiltHeldFor
    /\ tiltQuiet' = n.tiltQuiet

Flags(c) == [hasAudio |-> c.hasAudio, hasColor |-> c.hasColor]

\* first power-on with a blank card: the initializers, then setup(), in which
\* SD.begin and colorSensor.begin may fail
PoweredUp ==
    \E sdOk \in BOOLEAN, sensorOk \in BOOLEAN :
       LET n == setup(PowerOn(BlankCard), sdOk, sensorOk)
       IN /\ phase = "setup"
          /\ currentState = n.currentState
          /\ selectedSensor = n.selectedSensor
          /\ hasAudio = n.hasAudio
          /\ hasColor = n.hasColor
          /\ wifiFailCount = n.wifiFailCount
          /\ sincePotRead = n.sincePotRead
          /\ sinceDebounce = n.sinceDebounce
          /\ sinceTilt = n.sinceTilt
          /\ sinceSelecting = n.sinceSelecting
          /\ lastButtonState = n.lastButtonState
          /\ buttonState = n.buttonState
          /\ previousButtonState = n.previousButtonState
          /\ lastTiltState = n.lastTiltState
          /\ tiltState = n.tiltState
          /\ stableTilt = n.stableTilt
          /\ lastPotValue = n.lastPotValue
          /\ sd = n.sd
          /\ signals = n.signals
          /\ session = n.session
          /\ attempt = n.attempt
          /\ upload = n.upload
          /\ edge = n.edge
          /\ sinceCapChange = n.sinceCapChange
          /\ capGap = n.capGap
          /\ heldFor = n.heldFor
          /\ heldAtChange = n.heldAtChange
          /\ dial = n.dial
          /\ sampled = n.sampled
          /\ potEvent = n.potEvent
          /\ writes = n.writes
          /\ tiltHeldFor = n.tiltHeldFor
          /\ tiltQuiet = n.tiltQuiet
          /\ history = << >>
          /\ failStreak = 0
          /\ wav = NoRecording
          /\ strip = [before |-> NoRender, last |-> NoRender]
          /\ cap = NoCapture
          /\ intr = NoTake

\* ------------------------------------------------------------------------
\* The instrument sketch (bottle_instrument.ino)
\* ------------------------------------------------------------------------
Tones == {"B", "D", "G"}

\* the globals after their initializers; sinceCapDebounce is millis() -
\* lastCapDebounceTime.  serial holds the lines the last loop() printed,
\* played the playback function it called.  armed and shook follow the
\* bottle from outside: armed is cleared by a playback and set by a z above
\* the positive threshold, shook is set by a shake with the cap closed and
\* cleared when the cap closes and by a chord.
InstrumentOn(upMs) ==
    [cap |-> FALSE, wasShaken |-> FALSE, isUpsideDown |-> FALSE, justTurned |-> FALSE,
     toneSequence |-> << >>, sequenceLength |-> 0, wasPressed |-> {},
     capButtonState |-> HIGH, lastCapButtonState |-> HIGH,
     sinceCapDebounce |-> Sat(upMs, DEBOUNCE_DELAY_MS), z |-> 0,
     serial |-> << >>, played |-> "none", armed |-> TRUE, shook |-> FALSE]

\* a line printed: what it says and the tones it names
Say(s, what, tones) == [s EXCEPT !.serial = Append(@, [what |-> what, tones |-> tones])]

Said(s, what) == \E i \in 1..Len(s.serial) : s.serial[i].what = what

clearSequence(s) == Say([s EXCEPT !.sequenceLength = 0, !.toneSequence = << >>], "CLEARED", << >>)

\* variant: the capacity test admits one tone more
recordTone_over(s, tone) ==
    LET s1 == Say(s, "PLAY", <<tone>>)
    IN IF s1.sequenceLength <= SEQUENCE_SIZE
          THEN Say([s1 EXCEPT !.toneSequence = Append(@, tone), !.sequenceLength = @ + 1],
                   "RECORDED", <<tone>>)
          ELSE Say(s1, "FULL", <<tone>>)

recordTone(s, tone) ==
    LET s1 == Say(s, "PLAY", <<tone>>)
    IN IF s1.sequenceLength < SEQUENCE_SIZE
          THEN Say([s1 EXCEPT !.toneSequence = Append(@, tone), !.sequenceLength = @ + 1],
                   "RECORDED", <<tone>>)
          ELSE Say(s1, "FULL", <<tone>>)

playSequence(s) ==
    LET s1 == [s EXCEPT !.played = "sequence"]
    IN IF s1.sequenceLength = 0
          THEN Say(s1, "EMPTY", << >>)
          ELSE Say(s1, "SEQUENCE", s1.toneSequence)

\* the tones of the sequence, each once, in the order B, D, G
chordOf(seq) ==
    LET has(t) == \E i \in 1..Len(seq) : seq[i] = t
    IN (IF has("B") THEN <<"B">> ELSE << >>) \o (IF has("D") THEN <<"D">> ELSE << >>)
          \o (IF has("G") THEN <<"G">> ELSE << >>)

playChord(s) ==
    LET s1 == [s EXCEPT !.played = "chord"]
    IN IF s1.sequenceLength = 0
          THEN Say(s1, "EMPTY", << >>)
          ELSE Say(s1, "CMD:CHORD", chordOf(s1.toneSequence))

\* the cap button: debounce, toggle of cap on each committed press
readCapButton(s, reading) ==
    LET since == IF reading # s.lastCapButtonState THEN 0 ELSE s.sinceCapDebounce
        s1 == [s EXCEPT !.sinceCapDebounce = since]
        s2 == IF since > DEBOUNCE_DELAY_MS /\ reading # s1.capButtonState
                 THEN LET s3 == [s1 EXCEPT !.capButtonState = reading]
                      IN IF reading = LOW
                            THEN LET s4 == [s3 EXCEPT !.cap = ~@]
                                 IN IF ~s4.cap
                                       THEN [s4 EXCEPT !.wasShaken = FALSE, !.shook = FALSE]
                                       ELSE s4
                            ELSE s3
                 ELSE s1
    IN [s2 EXCEPT !.lastCapButtonState = reading]

\* the passing of d ms
Wait(s, d) == [s EXCEPT !.sinceCapDebounce = Sat(@ + d, DEBOUNCE_DELAY_MS)]

\* cap closed: a total acceleration above the threshold is a shake
detectShake(s, totalAccel) ==
    IF ~s.cap /\ totalAccel > SHAKE_THRESHOLD
       THEN Wait([s EXCEPT !.wasShaken = TRUE, !.shook = TRUE], SHAKE_DELAY_MS)
       ELSE s

\* variant: a bottle that stays upside down turns again in every iteration
markTurn_unlatched(s) ==
    IF s.z < TURN_THRESHOLD
       THEN [s EXCEPT !.isUpsideDown = TRUE, !.justTurned = TRUE]
    ELSE IF s.z > Abs(TURN_THRESHOLD)
       THEN [s EXCEPT !.isUpsideDown = FALSE, !.justTurned = FALSE]
    ELSE [s EXCEPT !.justTurned = FALSE]

\* justTurned and isUpsideDown from z
markTurn(s) ==
    IF s.z < TURN_THRESHOLD /\ ~s.isUpsideDown
       THEN [s EXCEPT !.isUpsideDown = TRUE, !.justTurned = TRUE]
    ELSE IF s.z > Abs(TURN_THRESHOLD)
       THEN [s EXCEPT !.isUpsideDown = FALSE, !.justTurned = FALSE]
    ELSE [s EXCEPT !.justTurned = FALSE]

\* cap open: new presses are recorded, then a turn with nothing pressed
\* plays the chord or the sequence
capOpenLogic(s, pressed) ==
    LET press(r, t) == IF t \in pressed /\ t \notin r.wasPressed THEN recordTone(r, t) ELSE r
        s1 == press(press(press(s, "B"), "D"), "G")
        s2 == markTurn(s1)
    IN IF s2.justTurned /\ pressed = {}
          THEN IF s2.wasShaken
                  THEN [playChord(s2) EXCEPT !.wasShaken = FALSE, !.shook = FALSE]
                  ELSE playSequence(s2)
          ELSE s2

\* one iteration of loop(): cmd is the character waiting on the serial
\* line ("" for none), reading the cap button pin, avail whether the IMU
\* has a new sample, zNew and total that sample, fsr the three analog values
instrumentLoop(s, cmd, reading, avail, zNew, total, fsr) ==
    LET s0 == [s EXCEPT !.serial = << >>, !.played = "none"]
        s1 == IF cmd \in {"r", "R"} THEN clearSequence(Say(s0, "CMD:RESET", << >>)) ELSE s0
        s2 == readCapButton(s1, reading)
        s3 == IF avail THEN [s2 EXCEPT !.z = zNew] ELSE s2
        totalAccel == IF avail THEN total ELSE 0
        pressed == {t \in Tones : fsr[t] > FSR_THRESHOLD}
        s4 == detectShake(s3, totalAccel)
        s5 == IF s4.cap THEN capOpenLogic(s4, pressed) ELSE s4
        s6 == Wait([s5 EXCEPT !.wasPressed = pressed], LOOP_DELAY_MS)
    IN [s6 EXCEPT !.armed = IF s6.played # "none" THEN FALSE
                            ELSE IF s6.z > Abs(TURN_THRESHOLD) THEN TRUE ELSE @]

Init == PoweredUp /\ pcm = NoSample /\ inst = InstrumentOn(0)

\* power-on with a reading of the microphone waiting to be sampled
InitSample ==
    /\ PoweredUp /\ inst = InstrumentOn(0)
    /\ \E reading \in Readings : pcm = [NoSample EXCEPT !.reading = reading]

\* the instrument after its setup(), which took one of SetupTimes
InitInstrument ==
    /\ PoweredUp /\ pcm = NoSample
    /\ \E upMs \in SetupTimes : inst = InstrumentOn(upMs)

\* what the environment decides for a session started in this iteration
NoEnv == [openOk |-> TRUE, clip |-> 1, reading |-> <<0, 0, 0>>, wifiOk |-> TRUE, httpCode |-> 200,
          colorRead |-> "record"]

SessionEnvs(p, clips, readings, colorReads) ==
    IF p.currentState \in {IDLE, SELECTING, INCOMPLETE} /\ capJustOpened(p)
       THEN {[NoEnv EXCEPT !.openOk = o, !.clip = k, !.reading = r] :
                o \in BOOLEAN, k \in clips, r \in readings}
    ELSE IF p.currentState = READY /\ isCapOpen(p) /\ isTilted(p)
       THEN {[NoEnv EXCEPT !.wifiOk = FALSE]}
            \cup {[NoEnv EXCEPT !.httpCode = h, !.colorRead = k] : h \in HttpCodes, k \in colorReads}
    ELSE {NoEnv}

\* the last two entries of a session history
Recent(h) == IF Len(h) > 2 THEN Tail(h) ELSE h

\* one iteration of loop() in an environment that offers the given poll
\* gaps and raw input values, the given captures and the given outcomes of
\* reading /color.dat
LoopWith(delays, capLevels, tiltLevels, potValues, clips, readings, colorReads) ==
    /\ \E dt \in delays, capRaw \in capLevels, tiltRaw \in tiltLevels, potValue \in potValues :
          LET p == pollInputs(Ctx, dt, capRaw, tiltRaw, potValue)
          IN \E env \in SessionEnvs(p, clips, readings, colorReads) :
             LET n == stateMachine(p, potValue, env)
                 cleared == n.attempt # "none" /\ ~n.hasAudio /\ ~n.hasColor
             IN /\ Commit(n)
                /\ history' = IF n.session.ok THEN Recent(Append(history, n.session.chan))
                              ELSE IF cleared THEN << >>
                              ELSE history
                /\ failStreak' = IF n.attempt = "failure" THEN failStreak + 1
                                 ELSE IF n.attempt = "success" \/ n.session.chan # "none" THEN 0
                                 ELSE failStreak
    /\ phase' = "loop"
    /\ UNCHANGED <<wavVars, ledVars, capVars, intrVars, pcmVars, instVars>>

\* one iteration of loop() with a card whose colour record reads back
LoopOver(delays, capLevels, tiltLevels, potValues) ==
    LoopWith(delays, capLevels, tiltLevels, potValues, Clips, SensorReadings, RecordRead)

\* loop() polled once per TickMs, dial on either side of the midpoint
Loop == LoopOver(Delays, BOOLEAN, BOOLEAN, PotValues)

\* loop() polled at the debounce time scale, bottle upright, dial at rest
LoopFine == LoopOver(FineDelays, BOOLEAN, {HIGH}, {PotLow})

\* power is removed and restored: RAM is reinitialized, the card keeps its
\* files, and setup() runs again
PowerCycle ==
    /\ \E sdOk \in BOOLEAN :
          \* the colour sensor is only probed once the card is up
          \E sensorOk \in IF sdOk THEN BOOLEAN ELSE {TRUE} :
             Commit(setup(PowerOn(sd), sdOk, sensorOk))
    /\ phase' = "setup"
    /\ history' = << >>
    /\ failStreak' = 0
    /\ UNCHANGED <<wavVars, ledVars, capVars, intrVars, pcmVars, instVars>>

Next == Loop \/ PowerCycle

Spec == Init /\ [][Next]_vars

NextInput == LoopFine \/ PowerCycle

\* loop() polled once per TickMs with one clip and one colour to capture,
\* on a card where reading /color.dat back may fail or find nothing
LoopPour == LoopWith(Delays, BOOLEAN, BOOLEAN, PotValues, OneClip, OneReading, ColorReads)

NextPour == LoopPour \/ PowerCycle

SpecPour == Init /\ [][NextPour]_vars

\* loop() with the dial below or at the midpoint, bottle upright, polled at
\* gaps on either side of POT_READ_INTERVAL
LoopDial == LoopOver(DialDelays, BOOLEAN, {HIGH}, DialValues)

NextDial == LoopDial \/ PowerCycle

SpecDial == Init /\ [][NextDial]_vars

SpecInput == Init /\ [][NextInput]_vars

\* An audio session of startRecording() followed through recordAudio():
\* the open, each pass of the sampling loop, and everything after the loop.
\* The dial stays on Audio and no colour session runs.
RecStart ==
    /\ wav.pos # "sampling"
    /\ currentState \in {IDLE, INCOMPLETE}
    /\ selectedSensor = AUDIO
    /\ \E openOk \in BOOLEAN :
          IF openOk
             THEN /\ Commit([Ctx EXCEPT !.currentState = RECORDING,
                                        !.sd.audio = [exists |-> TRUE, header |-> "placeholder",
                                                      data |-> << >>],
                                        !.signals = << >>, !.session = NoSession])
                  /\ wav' = audioOpened
             ELSE /\ Commit(startRecording([Ctx EXCEPT !.signals = << >>],
                                           [NoEnv EXCEPT !.openOk = FALSE]))
                  /\ wav' = [NoRecording EXCEPT !.pos = "failed"]
    /\ UNCHANGED <<phase, history, failStreak, ledVars, capVars, intrVars, pcmVars, instVars>>

RecPass ==
    /\ wav.pos = "sampling"
    /\ ~recordingOver(wav)
    /\ \E due \in BOOLEAN, dt \in AudioDelays :
          /\ due => wav.totalBytesWritten < MaxBlocks * bufferSize
          /\ wav' = samplePass(wav, due, dt)
    /\ UNCHANGED <<progVars, obsVars, ledVars, capVars, intrVars, pcmVars, instVars>>

RecFinish ==
    /\ wav.pos = "sampling"
    /\ recordingOver(wav)
    /\ wav' = finishAudio(wav)
    /\ Commit(startRecording(Ctx, NoEnv))
    /\ UNCHANGED <<phase, history, failStreak, ledVars, capVars, intrVars, pcmVars, instVars>>

NextAudio == RecStart \/ RecPass \/ RecFinish

SpecAudio == Init /\ [][NextAudio]_vars

\* The sampling branch of recordAudio() applied to the reading that waits.
MicSample ==
    /\ ~pcm.taken
    /\ pcm' = micSample(pcm.reading)
    /\ UNCHANGED <<progVars, obsVars, wavVars, ledVars, capVars, intrVars, instVars>>

NextSample == MicSample

SpecSample == InitSample /\ [][NextSample]_vars

\* updateLEDs() called with any state and progress, at any of the clock
\* values, with either channel selected
Render ==
    /\ \E state \in State, progress \in ProgressValues, now \in Clocks, sel \in SensorType :
          strip' = [before |-> strip.last,
                    last |-> [state |-> state, progress |-> progress, now |-> now, sel |-> sel,
                              fill |-> stripFill(state, progress, now, sel)]]
    /\ UNCHANGED <<progVars, obsVars, wavVars, capVars, intrVars, pcmVars, instVars>>

NextLed == Render

\* startRecording() enters recordAudio() or captureColor(); the loop of
\* either is followed pass by pass up to the completion blink.
CapStart ==
    /\ cap.pos # "loop"
    /\ \E chan \in SensorType, uptime \in Uptimes : cap' = captureStarted(chan, uptime)
    /\ UNCHANGED <<progVars, obsVars, wavVars, ledVars, intrVars, pcmVars, instVars>>

CapPass ==
    /\ cap.pos = "loop"
    /\ ~captureOver(cap)
    /\ cap.passes < MaxPasses
    /\ \E rd \in ReadDelays, dt \in PassDelays : cap' = capturePass(cap, rd, dt)
    /\ UNCHANGED <<progVars, obsVars, wavVars, ledVars, intrVars, pcmVars, instVars>>

CapEnd ==
    /\ cap.pos = "loop"
    /\ captureOver(cap)
    /\ cap' = captureEnd(cap)
    /\ UNCHANGED <<progVars, obsVars, wavVars, ledVars, intrVars, pcmVars, instVars>>

\* One iteration of loop() of the interruptible listing with the dial at
\* rest on the audio side and the bottle upright: the cap-open edge starts
\* a session, handleRecordingState() watches for its end and enters
\* stopRecording(), from where recordAudio() is followed pass by pass.
TakeLoop ==
    /\ intr.pos = "loop"
    /\ selectedSensor = AUDIO
    /\ \E dt \in AudioDelays, capRaw \in BOOLEAN :
          LET c0 == Elapse([Ctx EXCEPT !.signals = << >>, !.session = NoSession,
                                      !.writes = {}], dt)
              c1 == readButtonState(c0, capRaw)
              elapsed == intr.inRecording + dt
          IN IF c1.currentState = RECORDING
                THEN IF recordingStops(c1, elapsed)
                        THEN /\ Commit(c1)
                             /\ intr' = sampleLoopEntered(elapsed, capJustClosed(c1))
                        ELSE /\ Commit(clearEdge(c1))
                             /\ intr' = [intr EXCEPT !.inRecording = elapsed]
             ELSE IF c1.currentState \in {IDLE, INCOMPLETE} /\ capJustOpened(c1)
                THEN /\ Commit(clearEdge([c1 EXCEPT !.currentState = RECORDING]))
                     /\ intr' = NoTake
             ELSE /\ Commit(clearEdge(c1))
                  /\ intr' = intr
    /\ phase' = "loop"
    /\ UNCHANGED <<history, failStreak, wavVars, ledVars, capVars, pcmVars, instVars>>

TakePass ==
    /\ intr.pos = "sampling"
    /\ intr.sampledMs < RECORDING_DURATION
    /\ \E dt \in AudioDelays, capRaw \in BOOLEAN :
          LET c1 == readButtonState(Ctx, capRaw)
              next == samplingPass(intr, dt)
          IN IF capJustClosed(c1)
                THEN /\ Commit(c1)
                     /\ intr' = [intr EXCEPT !.pos = "closing"]
                ELSE /\ next.samples <= MaxTaken
                     /\ Commit(Elapse(c1, dt))
                     /\ intr' = next
    /\ UNCHANGED <<phase, history, failStreak, wavVars, ledVars, capVars, pcmVars, instVars>>

TakeFinish ==
    /\ \/ intr.pos = "closing"
       \/ intr.pos = "sampling" /\ intr.sampledMs >= RECORDING_DURATION
    /\ Commit(clearEdge(stopRecording(Ctx)))
    /\ intr' = [intr EXCEPT !.pos = "loop", !.done = TRUE]
    /\ UNCHANGED <<phase, history, failStreak, wavVars, ledVars, capVars, pcmVars, instVars>>

NextTake == TakeLoop \/ TakePass \/ TakeFinish

SpecTake == Init /\ [][NextTake]_vars

\* loop() of the instrument in an environment that offers the given
\* serial characters, accelerations and sensor values (one for B, one
\* shared by D and G); it presses the sensors only while the sequence is
\* shorter than maxTones, D and G only from the length busyFrom on;
\* between the lengths MaxTones and busyFrom only B is pressed, with the
\* bottle at rest upright, the cap button released and no command
InstrumentLoop(cmds, zs, totals, fsrB, fsrDG, maxTones, busyFrom) ==
    /\ \E cmd \in cmds, reading \in BOOLEAN, b \in fsrB, dg \in fsrDG :
          LET fsr == [t \in Tones |-> IF t = "B" THEN b ELSE dg]
              busy == inst.sequenceLength < MaxTones \/ inst.sequenceLength >= busyFrom
          IN /\ b > FSR_THRESHOLD => inst.sequenceLength < maxTones
             /\ dg > FSR_THRESHOLD =>
                   (inst.sequenceLength < maxTones /\ inst.sequenceLength >= busyFrom)
             /\ ~busy => (reading = HIGH /\ cmd = "")
             /\ \/ /\ busy
                   /\ inst' = instrumentLoop(inst, cmd, reading, FALSE, 0, 0, fsr)
                \/ \E zNew \in zs, total \in totals :
                      /\ ~busy => (zNew = Upright /\ total = Upright)
                      /\ inst' = instrumentLoop(inst, cmd, reading, TRUE, zNew, total, fsr)
    /\ UNCHANGED <<progVars, obsVars, wavVars, ledVars, capVars, intrVars, pcmVars>>

\* the instrument played until its sequence is full: the bottle is turned
\* and B is pressed at any length
LoopFill == InstrumentLoop(Commands, RestZs, RestTotals, FsrValues, FsrValues, AnyLength, BusyFrom)

NextFill == LoopFill

SpecFill == InitInstrument /\ [][NextFill]_vars

\* the instrument with a short sequence, turned through the thresholds
LoopTurn == InstrumentLoop(NoCommand, TurnZs, TurnTotals, FsrValues, FsrValues, MaxTones, MaxTones)

NextTurn == LoopTurn

SpecTurn == InitInstrument /\ [][NextTurn]_vars

NextLoop == CapStart \/ CapPass \/ CapEnd

SpecLoop == Init /\ [][NextLoop]_vars

SpecLed == Init /\ [][NextLed]_vars

TypeOK ==
    /\ phase \in {"setup", "loop"}
    /\ currentState \in State
    /\ selectedSensor \in SensorType
    /\ hasAudio \in BOOLEAN /\ hasColor \in BOOLEAN
    /\ wifiFailCount \in 0..MAX_FAILS
    /\ Len(history) <= 2

\* ------------------------------------------------------------------------
\* Properties
\* ------------------------------------------------------------------------
Channels(h) == {h[i] : i \in 1..Len(h)}

Count(seq, x) == Cardinality({i \in 1..Len(seq) : seq[i] = x})

LedgerCount == (IF hasAudio THEN 1 ELSE 0) + (IF hasColor THEN 1 ELSE 0)

\* C1: counted from Ready with failure counter 0, a first or second
\* consecutive failed transfer leaves the state Ready, both flags set and
\* both artifact files untouched; the third clears the ledger, resets the
\* counter and returns to Idle.
C1_TransferFailures ==
    [][attempt' = "failure" =>
          /\ failStreak' \in {1, 2} =>
                /\ currentState' = READY
                /\ hasAudio' /\ hasColor'
                /\ wifiFailCount' = failStreak'
                /\ sd'.audio = sd.audio /\ sd'.color = sd.color
          /\ failStreak' = 3 =>
                /\ currentState' = IDLE
                /\ ~hasAudio' /\ ~hasColor'
                /\ wifiFailCount' = 0
          /\ failStreak' \in 1..3]_vars

C1_Witness == attempt = "failure" /\ failStreak = 3 /\ currentState = IDLE

\* C2: once an audio session and a colour session have both completed since
\* the ledger was empty, in either order, both flags are set and the state
\* is Ready.
C2_BothSessionsReady ==
    Channels(history) = {AUDIO, COLOR} =>
        hasAudio /\ hasColor /\ currentState = READY

C2_Witness == history = <<COLOR, AUDIO>> /\ session.ok /\ currentState = READY

\* a loop() iteration in which the handler sees the pour gesture while the
\* ledger holds fewer than two recordings
PourAttemptBelowTwo ==
    /\ phase' = "loop"
    /\ currentState \in {IDLE, SELECTING, INCOMPLETE}
    /\ LedgerCount < 2
    /\ buttonState' = HIGH /\ stableTilt' /\ tiltState' = LOW

\* C3: a pour attempt with fewer than two recordings changes neither the
\* state nor the ledger, starts no session and emits exactly one warning.
C3_PourWarning ==
    [][PourAttemptBelowTwo =>
          /\ currentState' = currentState
          /\ hasAudio' = hasAudio /\ hasColor' = hasColor
          /\ session'.chan = "none" /\ attempt' = "none"
          /\ Count(signals', "WARNING") = 1]_vars

\* C4: a capture session that cannot open its artifact file ends in Error
\* and does not set a ledger flag.
C4_OpenFailureIsError ==
    [][session'.chan # "none" /\ ~session'.ok =>
          /\ currentState' = ERROR_STATE
          /\ hasAudio' = hasAudio /\ hasColor' = hasColor]_vars

C6_LedgerMatchesFiles ==
    /\ hasAudio <=> (sd.audio.exists /\ sd.audio.header = "final")
    /\ hasColor <=> sd.color.exists

\* C7: after a power cycle that setup() survives, the ledger flags are the
\* ones the card held before the reset.
C7_LedgerSurvivesReset ==
    [][phase' = "setup" /\ currentState' # ERROR_STATE =>
          LET persisted == loadRecordingStatus(sd.status, FALSE, FALSE)
          IN hasAudio' = persisted.hasAudio /\ hasColor' = persisted.hasColor]_vars

\* C8: two changes of the stable cap value are more than one debounce
\* window apart, and the stable value changes only to the value the raw line
\* has shown at every poll for longer than the window.
C8_Debounce ==
    [][phase' = "loop" /\ buttonState' # buttonState =>
          /\ capGap' > DEBOUNCE_TIME
          /\ heldAtChange' > DEBOUNCE_TIME
          /\ buttonState' = lastButtonState'
          /\ lastButtonState' = lastButtonState]_vars

C8_Witness == phase = "loop" /\ edge.opened /\ sinceCapChange = 0 /\ buttonState = HIGH

\* C9: the handler of a loop() iteration sees capJustOpened (capJustClosed)
\* exactly in the iteration in which the stable cap value changes to open
\* (closed).
C9_EdgeOnce ==
    [][phase' = "loop" =>
          /\ edge'.opened <=> (buttonState = LOW /\ buttonState' = HIGH)
          /\ edge'.closed <=> (buttonState = HIGH /\ buttonState' = LOW)]_vars

C9_Witness == phase = "loop" /\ edge.closed /\ buttonState = LOW

\* C10: when the second of two sessions on the same channel completes after
\* an empty ledger, only that channel's flag is set and its artifact holds
\* exactly what the second session captured.
C10_SameChannelTwice ==
    [][session'.ok /\ Len(history') = 2 /\ history'[1] = history'[2] =>
          /\ session'.chan = history'[2]
          /\ LedgerCount' = 1
          /\ currentState' = INCOMPLETE
          /\ session'.chan = AUDIO =>
                hasAudio' /\ ~hasColor' /\ sd'.audio.data = session'.data
          /\ session'.chan = COLOR =>
                hasColor' /\ ~hasAudio' /\ sd'.color.data = session'.data]_vars

C10_Witness ==
    /\ history = <<COLOR, COLOR>> /\ session.ok /\ session.chan = COLOR
    /\ sd.color.data = session.data

\* the counter and the state a failed attempt leaves, from the counter before
AfterFailure(count) ==
    IF count + 1 >= MAX_FAILS
       THEN [wifiFailCount |-> 0, currentState |-> IDLE]
       ELSE [wifiFailCount |-> count + 1, currentState |-> READY]

\* C11: a request answered with a 2xx status is a success (ledger cleared,
\* both artifact files deleted, failure counter 0, state Idle); any other
\* status or a transport error is a failure.
C11_Success2xx ==
    [][upload'.sent =>
          IF upload'.code \in 200..299
             THEN /\ attempt' = "success"
                  /\ ~hasAudio' /\ ~hasColor'
                  /\ ~sd'.audio.exists /\ ~sd'.color.exists
                  /\ wifiFailCount' = 0
                  /\ currentState' = IDLE
             ELSE attempt' = "failure"]_vars

\* C12: when the network link cannot be brought up, the attempt is a
\* failure in which no artifact file is opened and no request is sent, and
\* the counter and the next state are those of one failed attempt.
C12_NoLinkIsFailure ==
    [][upload'.link = "down" =>
          /\ attempt' = "failure"
          /\ ~upload'.sent /\ upload'.opened = {}
          /\ Count(signals', "FAIL_BLINK") = 1
          /\ failStreak' = failStreak + 1
          /\ wifiFailCount' = AfterFailure(wifiFailCount).wifiFailCount
          /\ currentState' = AfterFailure(wifiFailCount).currentState]_vars

C12_Witness ==
    upload.link = "down" /\ attempt = "failure" /\ wifiFailCount = 2 /\ currentState = READY

\* C13: no loop() iteration ends in Transferring: an attempt ends in Idle
\* on success, and on failure in Idle or Ready as the counter says; a
\* request that gets no response within the timeout is such a failure.
C13_TransferTerminates ==
    [][phase' = "loop" =>
          /\ currentState' # TRANSFERRING
          /\ (currentState = READY /\ buttonState' = HIGH /\ stableTilt' /\ tiltState' = LOW)
                => attempt' # "none"
          /\ attempt' = "success" => currentState' = IDLE
          /\ attempt' = "failure" =>
                /\ wifiFailCount' = AfterFailure(wifiFailCount).wifiFailCount
                /\ currentState' = AfterFailure(wifiFailCount).currentState
          /\ (upload'.sent /\ upload'.code = ReadTimeout) => attempt' = "failure"]_vars

C13_Witness ==
    /\ upload.sent /\ upload.code = ReadTimeout /\ attempt = "failure"
    /\ failStreak = 3 /\ currentState = IDLE

C15_AudioAutoStop ==
    [][wav.pos = "sampling" /\ LedgerCount = 0 =>
          IF wav.elapsed < RECORDING_DURATION
             THEN wav'.pos = "sampling" /\ currentState' = RECORDING /\ ~hasAudio'
             ELSE /\ wav'.pos = "done" /\ wav'.elapsed = wav.elapsed
                  /\ hasAudio' /\ LedgerCount' = 1 /\ currentState' = INCOMPLETE
                  /\ session'.ok /\ session'.chan = AUDIO]_vars

C15_Witness ==
    /\ wav.pos = "done" /\ wav.elapsed >= RECORDING_DURATION
    /\ hasAudio /\ ~hasColor /\ currentState = INCOMPLETE /\ buttonState = HIGH

\* C16: a colour session reads the sensor once; when it completes, the
\* colour artifact holds exactly that one record and hasColor is set, and
\* this stays so whatever the cap does afterwards.
C16_ColorOnce ==
    /\ session.chan = COLOR =>
          /\ Len(session.data) = 1
          /\ session.ok => hasColor /\ sd.color.exists /\ sd.color.data = session.data
    /\ COLOR \in Channels(history) =>
          hasColor /\ sd.color.exists /\ Len(sd.color.data) = 1

C16_Witness ==
    /\ phase = "loop" /\ edge.closed /\ history = <<COLOR>>
    /\ hasColor /\ Len(sd.color.data) = 1 /\ currentState = INCOMPLETE

\* C17: after a failed initialization the state is Error, and every loop()
\* iteration that starts in Error stays in Error and renders the Error
\* status.
C17_ErrorRendered ==
    [][currentState = ERROR_STATE /\ phase' = "loop" =>
          /\ currentState' = ERROR_STATE
          /\ Count(signals', ERROR_STATE) >= 1]_vars

\* C18: in Incomplete exactly one ledger flag is set, in Ready both are,
\* and a transfer attempt is only made from Ready with both flags set.
C18_StateMatchesLedger ==
    /\ [](/\ currentState = INCOMPLETE => LedgerCount = 1
          /\ currentState = READY => LedgerCount = 2)
    /\ [][attempt' # "none" => currentState = READY /\ hasAudio /\ hasColor]_vars

C18_Witness == attempt = "failure" /\ currentState = READY /\ hasAudio /\ hasColor

\* C19: in Idle the ledger is empty.
C19_IdleEmptyLedger == currentState = IDLE => ~hasAudio /\ ~hasColor

\* C20: a loop() iteration that starts in Ready makes a transfer attempt
\* exactly when the stable cap value is open and the stable tilt is tilted;
\* otherwise the state stays Ready and ledger and card are unchanged.
C20_ReadyPourOnly ==
    [][currentState = READY /\ phase' = "loop" =>
          /\ attempt' # "none" <=> (buttonState' = HIGH /\ stableTilt' /\ tiltState' = LOW)
          /\ session'.chan = "none"
          /\ attempt' = "none" =>
                /\ currentState' = READY
                /\ hasAudio' = hasAudio /\ hasColor' = hasColor
                /\ sd' = sd]_vars

C20_Witness ==
    /\ currentState = READY /\ phase = "loop" /\ edge.opened /\ selectedSensor = COLOR
    /\ session.chan = "none" /\ attempt = "none" /\ ~stableTilt

\* in Selecting, more than the timeout without dial event or cap-open edge
\* ends in Idle
SelectingTimesOut ==
    (currentState = SELECTING /\ phase' = "loop" /\ ~edge'.opened /\ ~potEvent'
        /\ sinceSelecting' > SELECTING_TIMEOUT)
      => currentState' = IDLE

\* a dial event seen in Selecting restarts the timeout
SelectingRestarts ==
    (currentState = SELECTING /\ phase' = "loop" /\ potEvent' /\ currentState' = SELECTING)
      => sinceSelecting' = 0

\* Idle with the dial where it was at the previous iteration and no cap-open
\* edge stays Idle
IdleStays ==
    (currentState = IDLE /\ phase' = "loop" /\ dial' = dial /\ ~edge'.opened)
      => currentState' = IDLE

\* C21: Selecting returns to Idle after more than 5 s without dial event or
\* cap-open edge, every dial event seen in Selecting restarts the timeout,
\* and Idle with a stationary dial and no cap-open edge stays Idle.
C21_SelectingTimeout ==
    [][SelectingTimesOut /\ SelectingRestarts /\ IdleStays]_vars

\* C22: a handler takes its dial-moved branch only in an iteration whose raw
\* dial value differs by more than the hysteresis distance from the one of
\* the previous iteration.
C22_Hysteresis ==
    [][phase' = "loop" /\ potEvent' =>
          dial # -1 /\ Abs(dial' - dial) > POT_THRESHOLD]_vars

\* the channel a raw dial value stands for
Side(v) == IF v < POT_MIDPOINT THEN AUDIO ELSE COLOR

\* C23: the selected channel is the side of the midpoint of the dial value
\* last sampled, and a session records that channel.
C23_ChannelFollowsDial ==
    /\ selectedSensor = IF sampled = -1 THEN AUDIO ELSE Side(sampled)
    /\ session.chan # "none" => sampled # -1 /\ session.chan = Side(sampled)

C23_Witness ==
    /\ session.ok /\ session.chan = COLOR /\ sampled = POT_MIDPOINT
    /\ hasColor /\ ~potEvent

C25_RenderDeterministic ==
    (/\ strip.before.state = strip.last.state
     /\ strip.before.state # "none"
     /\ strip.before.progress = strip.last.progress)
       => strip.before.fill = strip.last.fill

\* C26: within one capture session two successive progress updates of the
\* capture loop are at least LED_UPDATE_INTERVAL apart; the passes between
\* them show nothing.
C26_ProgressRateLimited ==
    (cap.pos = "loop" /\ cap.emitted /\ cap.ledGap # -1) => cap.ledGap >= LED_UPDATE_INTERVAL

\* C26 as stated, over every status emission of the session, the
\* completion blink included
C26_EveryEmission ==
    (cap.emitted /\ cap.ledGap # -1) => cap.ledGap >= LED_UPDATE_INTERVAL

C26_Witness ==
    /\ cap.pos = "loop" /\ cap.emitted /\ cap.updates = 2
    /\ cap.ledGap = LED_UPDATE_INTERVAL /\ cap.between > 0 /\ cap.samples > 2

\* C28: two consecutive samples of an audio session are at least one sample
\* period apart, so a session never holds more samples than its elapsed
\* time allows (plus the one at its start), and after a sample the
\* schedule puts the next one at least a period later.
C28_SampleSchedule ==
    /\ (cap.sampledNow /\ cap.sampleGap # -1) => cap.sampleGap >= sampleInterval
    /\ cap.samples * sampleInterval <= (cap.us - cap.startTime * 1000) + sampleInterval
    /\ cap.sampledNow => cap.nextSample >= cap.sampleAt + sampleInterval

\* C27: a capture session and a transfer session never run in the same
\* step, and outside setup() the files and the ledger are written only by
\* a capture session or by a transfer session in state Transferring; a
\* capture session writes the artifact file and the ledger flag in state
\* Recording, and persists the ledger after it has set the next state.
C27_WritesOwned ==
    /\ ~(session.chan # "none" /\ attempt # "none")
    /\ phase = "loop" =>
          \A w \in writes :
             \/ session.chan # "none" /\ (w[2] = RECORDING \/ w[1] = "status")
             \/ attempt # "none" /\ w[2] = TRANSFERRING

\* C27 as stated: every write of a capture session is made while the state
\* is Recording
C27_SingleWriter ==
    /\ ~(session.chan # "none" /\ attempt # "none")
    /\ phase = "loop" =>
          \A w \in writes :
             \/ session.chan # "none" /\ w[2] = RECORDING
             \/ attempt # "none" /\ w[2] = TRANSFERRING

C27_Witness ==
    /\ phase = "loop" /\ session.ok /\ session.chan = COLOR
    /\ writes = {<<"color", RECORDING>>, <<"ledger", RECORDING>>, <<"status", READY>>}

\* C29: in the interruptible listing an audio session that lasted at least
\* one sample period ends with a non-empty clip, sampled for as long as
\* the controller was in Recording.
C29_InterruptibleClip ==
    (intr.done /\ intr.pos = "loop" /\ intr.inRecording * 1000 >= sampleInterval)
       => (intr.samples > 0 /\ intr.sampledMs = intr.inRecording)

\* C30: in Ready every iteration that sees the pour gesture makes a
\* transfer attempt; consecutive failed attempts on one pair of artifacts
\* are counted by the failure counter, the first two leave the state Ready,
\* and the third ends in Idle with an empty ledger and the counter at 0, so
\* there is never a fourth.
RetryBounded ==
    /\ failStreak <= MAX_FAILS
    /\ currentState = READY => (failStreak = wifiFailCount /\ failStreak < MAX_FAILS)
    /\ (attempt = "failure" /\ failStreak < MAX_FAILS) => currentState = READY
    /\ (attempt = "failure" /\ failStreak = MAX_FAILS) =>
          (currentState = IDLE /\ LedgerCount = 0 /\ wifiFailCount = 0)

PourAttempts ==
    (phase' = "loop" /\ currentState = READY
        /\ buttonState' = HIGH /\ stableTilt' /\ tiltState' = LOW)
       => attempt' # "none"

C30_BoundedRetry == []RetryBounded /\ [][PourAttempts]_vars

C30_Witness ==
    /\ attempt = "failure" /\ failStreak = MAX_FAILS /\ upload.link = "down"
    /\ currentState = IDLE /\ ~sd.audio.exists /\ ~sd.color.exists

TiltedSinceChange ==
    (stableTilt /\ tiltState = LOW) =>
        (tiltQuiet > TILT_STABLE_TIME /\ lastTiltState = HIGH)

TiltChangeClears ==
    (phase' = "loop" /\ lastTiltState' # lastTiltState) => ~(stableTilt' /\ tiltState' = LOW)

NoPourWhileBouncing ==
    attempt' # "none" =>
        (lastTiltState' = lastTiltState /\ tiltHeldFor' > TILT_STABLE_TIME)

TiltedIsStable ==
    (stableTilt /\ tiltState = LOW) =>
        (tiltHeldFor > TILT_STABLE_TIME /\ lastTiltState = HIGH)

C33_SampleScaling ==
    pcm.taken =>
        /\ pcm.value = (pcm.reading - ADC_MID) * PCM_GAIN
        /\ pcm.value \in -32768..32767
        /\ (pcm.reading = ADC_MID => pcm.value = 0)
        /\ \A t \in Readings : t < pcm.reading => sample16(t) < pcm.value
        /\ pcm.bytes[1] \in 0..255 /\ pcm.bytes[2] \in 0..255
        /\ readLE16(pcm.bytes) = pcm.value

C33_Witness ==
    /\ pcm.taken /\ pcm.reading = 0 /\ pcm.value = -32768 /\ pcm.bytes = <<0, 128>>

\* C34: while recordAudio() samples, bufferIndex is even and between 0 and
\* bufferSize - 2 at every pass, so both cells a sample is stored in lie
\* inside the buffer; the buffer is written out and the index reset exactly
\* in the pass whose sample fills it; after the loop a non-empty partial
\* block is written; and the bytes written plus those waiting are always
\* two per sample.
BufferInBounds ==
    wav.pos = "sampling" =>
        /\ wav.bufferIndex % 2 = 0
        /\ 0 <= wav.bufferIndex /\ wav.bufferIndex <= bufferSize - 2
        /\ wav.appended + wav.bufferIndex = 2 * wav.samples
        /\ wav.totalBytesWritten = wav.appended

FlushWhenFull ==
    (wav.pos = "sampling" /\ wav'.pos = "sampling") =>
        IF wav'.samples = wav.samples + 1 /\ wav.bufferIndex + 2 = bufferSize
           THEN wav'.appended = wav.appended + bufferSize /\ wav'.bufferIndex = 0
           ELSE wav'.appended = wav.appended

FlushRemainder ==
    (wav.pos = "sampling" /\ wav'.pos = "done") =>
        /\ wav'.appended = wav.appended + wav.bufferIndex
        /\ wav'.totalBytesWritten = 2 * wav.samples
        /\ wav'.samples = wav.samples

C34_BufferDiscipline == []BufferInBounds /\ [][FlushWhenFull /\ FlushRemainder]_vars

C34_Witness ==
    /\ wav.pos = "sampling" /\ wav.bufferIndex = 0
    /\ wav.samples = bufferSize \div 2 /\ wav.appended = bufferSize

\* C35: between loop() iterations wifiFailCount is 0, 1 or 2, it is above
\* 0 only in the state Ready, and a capture session always runs with the
\* counter at 0.
C35_FailCountBounds ==
    /\ wifiFailCount \in 0..(MAX_FAILS - 1)
    /\ (wifiFailCount > 0 => currentState = READY)
    /\ (session.chan # "none" => wifiFailCount = 0)

C35_Witness ==
    /\ wifiFailCount = MAX_FAILS - 1 /\ currentState = READY /\ attempt = "failure"

\* C36: between loop() iterations the state is Idle, Selecting, Incomplete,
\* Ready or Error, never Recording or Transferring: the iteration that ran
\* a capture session ends in Idle, Incomplete or Ready, and the one that
\* ran a transfer attempt ends in Idle or Ready.
C36_RestingStates ==
    /\ currentState \in {IDLE, SELECTING, INCOMPLETE, READY, ERROR_STATE}
    /\ (session.chan # "none" => currentState \in {IDLE, INCOMPLETE, READY})
    /\ (attempt # "none" => currentState \in {IDLE, READY})

C36_Witness ==
    /\ session.chan = AUDIO /\ <<"audio", RECORDING>> \in writes
    /\ currentState = READY /\ hasAudio /\ hasColor

\* C37: between loop() iterations the record in /recordings.txt, read the
\* way loadRecordingStatus() reads it (no file: both false), gives the
\* flags hasAudio and hasColor held in memory.
LedgerOnCard == loadRecordingStatus(sd.status, FALSE, FALSE)

C37_WriteThrough == phase = "loop" => LedgerOnCard = Flags(Ctx)

\* C38: in a transfer attempt whose link is up, when /audio.wav does not
\* open the attempt is a failure, counted, with no request sent; when
\* /audio.wav opens but /color.dat does not, or has nothing to read, the
\* request is sent with the colour 128,128,128, and an answer of 200 then
\* clears the ledger and both files and returns to Idle.
C38_MissingArtifacts ==
    [][(attempt' # "none" /\ upload'.link = "up") =>
          /\ "audio" \notin upload'.opened =>
                /\ attempt' = "failure" /\ ~upload'.sent
                /\ wifiFailCount' = AfterFailure(wifiFailCount).wifiFailCount
          /\ ("audio" \in upload'.opened /\ upload'.found # "record") =>
                /\ upload'.sent /\ upload'.color = <<DefaultColor>>
                /\ upload'.code = 200 =>
                      /\ attempt' = "success" /\ ~hasAudio' /\ ~hasColor'
                      /\ sd'.audio = NoFile /\ sd'.color = NoFile
                      /\ currentState' = IDLE]_vars

C38_Witness ==
    /\ attempt = "success" /\ upload.sent /\ upload.found = "absent"
    /\ upload.color = <<DefaultColor>> /\ currentState = IDLE /\ ~hasAudio /\ ~hasColor

\* C39: in the instrument sketch the sequence holds between 0 and 50
\* tones; a tone pressed when it holds 50 is announced but not stored; an
\* iteration that plays the sequence or the chord leaves the stored tones
\* as they were; and the length goes down, to 0, only by the reset command.
SequenceBounded ==
    /\ inst.sequenceLength \in 0..SEQUENCE_SIZE
    /\ Len(inst.toneSequence) = inst.sequenceLength

FullNotStored ==
    (inst.sequenceLength = SEQUENCE_SIZE /\ ~Said(inst', "CMD:RESET")) =>
        /\ inst'.toneSequence = inst.toneSequence
        /\ ~Said(inst', "RECORDED")
        /\ Said(inst', "PLAY") <=> Said(inst', "FULL")

PlaybackKeeps ==
    (inst'.played # "none" /\ ~Said(inst', "CMD:RESET")) =>
        /\ inst'.toneSequence = inst.toneSequence
        /\ inst'.sequenceLength = inst.sequenceLength

OnlyResetClears ==
    inst'.sequenceLength < inst.sequenceLength =>
        (Said(inst', "CMD:RESET") /\ inst'.sequenceLength <= Cardinality(Tones))

C39_SequenceStore ==
    []SequenceBounded /\ [][FullNotStored /\ PlaybackKeeps /\ OnlyResetClears]_vars

C39_Witness ==
    /\ inst.sequenceLength = SEQUENCE_SIZE /\ Said(inst, "FULL") /\ Said(inst, "RECORDED")
    /\ inst.cap

\* C40: in the instrument sketch a playback function is called only in an
\* iteration that ends with the cap open, in which z is below the turn
\* threshold while the bottle was not yet marked upside down, and no
\* sensor is pressed; after a playback none follows before z has been
\* above the positive threshold; and the chord is played exactly when the
\* bottle was shaken with the cap closed since the cap last closed and
\* since the last chord, the sequence otherwise.
PlaybackTrigger ==
    inst'.played # "none" =>
        /\ inst'.cap
        /\ inst'.z < TURN_THRESHOLD /\ ~inst.isUpsideDown
        /\ inst'.justTurned /\ inst'.isUpsideDown
        /\ inst'.wasPressed = {}

PlaybackOncePerTurn == inst'.played # "none" => inst.armed

ChordIffShaken ==
    /\ inst'.played = "chord" => (inst.shook /\ ~inst'.shook /\ ~inst'.wasShaken)
    /\ inst'.played = "sequence" => ~inst.shook

C40_PlaybackTrigger == [][PlaybackTrigger /\ PlaybackOncePerTurn /\ ChordIffShaken]_vars

C40_Witness ==
    /\ inst.played = "chord" /\ Said(inst, "CMD:CHORD") /\ inst.cap /\ inst.isUpsideDown
    /\ inst.z = TURN_THRESHOLD - 1 /\ ~inst.armed

====
